---- MODULE Spec2Model ----
(***************************************************************************)
(* Model of the PyPIM client library (ansys.platform.instancemanagement):  *)
(* the Instance handle (create, update, wait_for_ready, delete,            *)
(* build_grpc_channel, with scope) and the Client facade (list_definitions, *)
(* list_instances, get_instance, create_instance, close, with scope)       *)
(* talking to a remote PIM service whose answers are nondeterministic, and *)
(* the loading of the client's configuration file.                         *)
(***************************************************************************)
EXTENDS Integers, Sequences, FiniteSets, TLC

VARIABLES
    handle,   \* the fields of the Instance handle held by the caller
    srv,      \* what the remote currently answers to GetInstance
    wait,     \* position and event log of a wait_for_ready call
    last,     \* the last operation called: arguments, remote calls, outcome
    lastGet,  \* the last GetInstance response received by the handle
    config,   \* the configuration the client was constructed with
    chan,     \* the client's channel and the with scope opened on the client
    life,     \* where the handle came from, its deletions, its with scope
    file,     \* the content of the configuration file that is loaded
    thr       \* a thread inside update and a thread inside build_grpc_channel

vars == <<handle, srv, wait, last, lastGet, config, chan, life, file, thr>>

----------------------------------------------------------------------------
(* Bounds of the model *)

\* events of one wait_for_ready call that are recorded before the log saturates
MaxTrace == 5
\* definitions carried by one ListDefinitions response
MaxDefs == 2
\* DeleteInstance requests followed for one handle
MaxDeletes == 2
\* instances carried by one ListInstances response
MaxInsts == 2
\* calls of close() followed on the client's channel
MaxCloses == 2
\* headers of the configuration file
MaxHeaders == 2
MaxMetadata == 2
MaxRequests == 2
MaxUpdates == 2

----------------------------------------------------------------------------
(* Value domains *)

NoneVal == "<None>"

InstNames == {"instances/a", "instances/b"}
DefNames == {"definitions/d1", "definitions/d2"}
StatusMessages == {"", "loading"}
SvcNames == {"grpc", "http"}
RequestedSvcNames == {"grpc", "http", "other"}
Uris == {"dns:u1", "dns:u2"}
ProductNames == {"mapdl"}
ProductVersions == {NoneVal, "", "221"}
Timeouts == {NoneVal, "0.1"}
ErrCodes == {"NOT_FOUND", "INTERNAL", "UNAVAILABLE"}
Details == {"", "teapot"}
SrvStates == {"starting", "running"} \cup ErrCodes

\* wire Service records and service maps of a wire Instance
ServiceV1 == [uri : Uris, headers : {<<>>}]
ServiceMapsV1 == UNION {[S -> ServiceV1] : S \in SUBSET SvcNames}

\* wire Instance records
InstanceV1 ==
    [name : InstNames, definition_name : DefNames, ready : BOOLEAN,
     status_message : StatusMessages, services : ServiceMapsV1]

\* wire Definition records and ListDefinitions responses
DefinitionV1 ==
    [name : DefNames, product_name : ProductNames, product_version : {"221"},
     available_service_names : {<<"grpc">>}]

RECURSIVE SeqsUpTo(_, _)
SeqsUpTo(S, n) ==
    IF n = 0 THEN {<<>>}
    ELSE LET shorter == SeqsUpTo(S, n - 1)
         IN shorter \cup {Append(s, e) : s \in {t \in shorter : Len(t) = n - 1}, e \in S}

DefinitionLists == SeqsUpTo(DefinitionV1, MaxDefs)

\* wire Definition records a faulty remote can send: a name without the
\* "definitions/" prefix, an empty product name, an empty product version, no
\* service name; and the ListDefinitions responses that hold one of them
MalformedDefinitionV1 ==
    {[name |-> "d3", product_name |-> "mapdl", product_version |-> "221",
      available_service_names |-> <<"grpc">>],
     [name |-> "definitions/d1", product_name |-> "", product_version |-> "221",
      available_service_names |-> <<"grpc">>],
     [name |-> "definitions/d1", product_name |-> "mapdl", product_version |-> "",
      available_service_names |-> <<"grpc">>],
     [name |-> "definitions/d1", product_name |-> "mapdl", product_version |-> "221",
      available_service_names |-> <<>>]}
\* wire Instance records a faulty remote can send: a name without the
\* "instances/" prefix, a definition name without the "definitions/" prefix,
\* a service without uri
MalformedInstanceV1 ==
    {[name |-> "a", definition_name |-> "definitions/d1", ready |-> TRUE,
      status_message |-> "", services |-> <<>>],
     [name |-> "instances/a", definition_name |-> "d1", ready |-> TRUE,
      status_message |-> "", services |-> <<>>],
     [name |-> "instances/a", definition_name |-> "definitions/d1", ready |-> TRUE,
      status_message |-> "",
      services |-> [n \in {"grpc"} |-> [uri |-> "", headers |-> <<>>]]]}
MalformedDefinitionLists ==
    {l \in SeqsUpTo(MalformedDefinitionV1 \cup {d \in DefinitionV1 : d.name = "definitions/d2"},
                    MaxDefs) :
        \E i \in 1..Len(l) : l[i] \in MalformedDefinitionV1}

\* ListInstances responses: instances of one definition, starting without
\* services or ready with a grpc service
ListedInstancesV1 ==
    {i \in InstanceV1 : /\ i.definition_name = "definitions/d1"
                        /\ i.status_message = ""
                        /\ DOMAIN i.services = IF i.ready THEN {"grpc"} ELSE {}
                        /\ \A n \in DOMAIN i.services : i.services[n].uri = "dns:u1"}
InstanceLists == SeqsUpTo(ListedInstancesV1, MaxInsts)

NoInstance ==
    [name |-> NoneVal, definition_name |-> NoneVal, ready |-> FALSE,
     status_message |-> NoneVal, services |-> <<>>]

\* proto3 string field set from a Python value: None leaves the field unset
ProtoStr(x) == IF x = NoneVal THEN "" ELSE x

\* a text is the sequence of its pieces; the access token that is None
NoToken == <<NoneVal>>

\* the absent Configuration (None) and the absent return value
NoConfiguration ==
    [present |-> FALSE, uri |-> "", headers |-> <<>>, tls |-> FALSE,
     access_token |-> NoToken]

\* what Client(channel, configuration) is constructed with: nothing, a
\* Configuration for a plain connection, one for a secure connection
ClientConfigurations ==
    {NoConfiguration,
     [present |-> TRUE, uri |-> "dns:pim", headers |-> <<>>, tls |-> FALSE,
      access_token |-> NoToken],
     [present |-> TRUE, uri |-> "dns:pim", headers |-> <<>>, tls |-> TRUE,
      access_token |-> <<"007">>]}

\* the outcome of one remote call: a status, its detail text, the payload
RpcOk(payload) == [code |-> "OK", details |-> "", payload |-> payload]
RpcError(code, details) == [code |-> code, details |-> details, payload |-> NoInstance]
RpcErrors == {RpcError(c, d) : c \in ErrCodes, d \in Details}
ListRpcErrors ==
    {[code |-> c, details |-> d, payload |-> <<>>] : c \in ErrCodes, d \in Details}

\* one call made by an operation
Call(method, arg, timeout) == [method |-> method, arg |-> arg, timeout |-> timeout]

----------------------------------------------------------------------------
(* Exceptions *)

NoCause == [code |-> "none", details |-> ""]
NoExc == [type |-> "none", message |-> <<>>, cause |-> NoCause, attrs |-> <<>>]

\* message texts are kept as the sequence of their pieces
Contains(message, s) == \E i \in 1..Len(message) : message[i] = s

InstanceNotReadyError(instance_name) ==
    [type |-> "InstanceNotReadyError",
     message |-> <<instance_name, " is not ready">>,
     cause |-> NoCause, attrs |-> <<instance_name>>]

UnsupportedServiceError(instance_name, service_name) ==
    [type |-> "UnsupportedServiceError",
     message |-> <<instance_name, " does not support the service ", service_name>>,
     cause |-> NoCause, attrs |-> <<instance_name, service_name>>]

\* UnsupportedProductError with the version always in the message
UnsupportedProductError_version_always(product_name, product_version) ==
    [type |-> "UnsupportedProductError",
     message |-> <<"The remote server does not support ", product_name,
                   " in version ", product_version, ".">>,
     cause |-> NoCause, attrs |-> <<product_name, product_version>>]

UnsupportedProductError(product_name, product_version) ==
    [type |-> "UnsupportedProductError",
     message |->
        IF product_version \notin {NoneVal, ""}
        THEN <<"The remote server does not support ", product_name,
               " in version ", product_version, ".">>
        ELSE <<"The remote server does not support ", product_name, ".">>,
     cause |-> NoCause, attrs |-> <<product_name, product_version>>]

\* raise RemoteError(exc, exc.details()) from exc
RemoteError(rpc) ==
    [type |-> "RemoteError", message |-> <<rpc.details>>,
     cause |-> [code |-> rpc.code, details |-> rpc.details], attrs |-> <<>>]

\* raise InstanceNotFoundError(exc, text) from exc
InstanceNotFoundError(rpc, message) ==
    [type |-> "InstanceNotFoundError", message |-> message,
     cause |-> [code |-> rpc.code, details |-> rpc.details], attrs |-> <<>>]

\* a grpc.RpcError that no handler catches
UncaughtRpcError(rpc) ==
    [type |-> "grpc.RpcError", message |-> <<rpc.details>>,
     cause |-> [code |-> rpc.code, details |-> rpc.details], attrs |-> <<>>]

\* a call whose arguments do not fit the callee's signature
TypeError(callee) ==
    [type |-> "TypeError", message |-> <<callee>>, cause |-> NoCause, attrs |-> <<>>]

----------------------------------------------------------------------------
(* Service and Instance *)

Service_from_pim_v1(service) == [uri |-> service.uri, headers |-> service.headers]

\* Service._build_grpc_channel: the service's headers as interceptor metadata,
\* a secure channel only when a configuration with tls is passed
Service_build_grpc_channel(self, configuration) ==
    [target |-> self.uri, metadata |-> self.headers,
     secure |-> configuration.present /\ configuration.tls,
     access_token |-> IF configuration.present /\ configuration.tls
                      THEN configuration.access_token ELSE NoToken]

\* Instance._from_pim_v1 keeping the services of a ready instance only
Instance_from_pim_v1_services_when_ready(instance) ==
    [name |-> instance.name,
     definition_name |-> instance.definition_name,
     ready |-> instance.ready,
     status_message |-> instance.status_message,
     services |-> IF instance.ready
                  THEN [n \in DOMAIN instance.services |->
                           Service_from_pim_v1(instance.services[n])]
                  ELSE <<>>]

\* Instance._from_pim_v1(instance, stub)
Instance_from_pim_v1(instance) ==
    [name |-> instance.name,
     definition_name |-> instance.definition_name,
     ready |-> instance.ready,
     status_message |-> instance.status_message,
     services |-> [n \in DOMAIN instance.services |->
                      Service_from_pim_v1(instance.services[n])]]

\* the keyword parameters of Instance._create and the most positional
\* arguments Instance._from_pim_v1 takes
Instance_create_parameters == {"definition_name", "stub", "timeout"}
Instance_from_pim_v1_max_args == 2

\* Instance._create returning a handle that is never ready
Instance_create_never_ready(kwargs, definition_name, timeout, rpc) ==
    IF ~(kwargs \subseteq Instance_create_parameters)
    THEN [calls |-> <<>>, exc |-> TypeError("Instance._create"), ret |-> <<>>]
    ELSE IF rpc.code # "OK"
    THEN [calls |-> <<Call("CreateInstance", <<definition_name>>, timeout)>>,
          exc |-> UncaughtRpcError(rpc), ret |-> <<>>]
    ELSE [calls |-> <<Call("CreateInstance", <<definition_name>>, timeout)>>,
          exc |-> NoExc,
          ret |-> <<[Instance_from_pim_v1(rpc.payload) EXCEPT !.ready = FALSE]>>]

\* Instance._create called with the keywords kwargs, given the outcome of its
\* CreateInstance call
Instance_create(kwargs, definition_name, timeout, rpc) ==
    IF ~(kwargs \subseteq Instance_create_parameters)
    THEN [calls |-> <<>>, exc |-> TypeError("Instance._create"), ret |-> <<>>]
    ELSE IF rpc.code # "OK"
    THEN [calls |-> <<Call("CreateInstance", <<definition_name>>, timeout)>>,
          exc |-> UncaughtRpcError(rpc), ret |-> <<>>]
    ELSE [calls |-> <<Call("CreateInstance", <<definition_name>>, timeout)>>,
          exc |-> NoExc, ret |-> <<Instance_from_pim_v1(rpc.payload)>>]

\* Instance.update with ready and services cleared by a failed call
Instance_update_reset_on_error(self, rpc) ==
    IF rpc.code # "OK"
    THEN [self |-> [self EXCEPT !.ready = FALSE, !.services = <<>>],
          exc |-> IF rpc.code = "NOT_FOUND"
                  THEN InstanceNotFoundError(rpc,
                          <<"The instance ", self.name, " was deleted.">>)
                  ELSE RemoteError(rpc)]
    ELSE [self |-> Instance_from_pim_v1(rpc.payload), exc |-> NoExc]

\* Instance.update with the response's services merged into the previous ones
Instance_update_merge_services(self, rpc) ==
    IF rpc.code # "OK"
    THEN [self |-> self,
          exc |-> IF rpc.code = "NOT_FOUND"
                  THEN InstanceNotFoundError(rpc,
                          <<"The instance ", self.name, " was deleted.">>)
                  ELSE RemoteError(rpc)]
    ELSE [self |-> [Instance_from_pim_v1(rpc.payload) EXCEPT !.services =
                      [n \in DOMAIN self.services \cup DOMAIN rpc.payload.services |->
                          IF n \in DOMAIN rpc.payload.services
                          THEN Service_from_pim_v1(rpc.payload.services[n])
                          ELSE self.services[n]]],
          exc |-> NoExc]

\* Instance.update never taking ready back once the handle was ready
Instance_update_ready_sticky(self, rpc) ==
    IF rpc.code # "OK"
    THEN [self |-> self,
          exc |-> IF rpc.code = "NOT_FOUND"
                  THEN InstanceNotFoundError(rpc,
                          <<"The instance ", self.name, " was deleted.">>)
                  ELSE RemoteError(rpc)]
    ELSE [self |-> [name |-> rpc.payload.name,
                    definition_name |-> rpc.payload.definition_name,
                    status_message |-> rpc.payload.status_message,
                    services |-> [n \in DOMAIN rpc.payload.services |->
                                     Service_from_pim_v1(rpc.payload.services[n])],
                    ready |-> self.ready \/ rpc.payload.ready],
          exc |-> NoExc]

\* the assignments of Instance.update with ready published before services
update_writes_ready_first ==
    <<"name", "definition_name", "status_message", "ready", "services">>

\* the assignments of Instance.update after a successful call, in their order
update_writes ==
    <<"name", "definition_name", "status_message", "services", "ready">>

\* Instance.update keeping the name the handle was created with
Instance_update_keeps_name(self, rpc) ==
    IF rpc.code # "OK"
    THEN [self |-> self,
          exc |-> IF rpc.code = "NOT_FOUND"
                  THEN InstanceNotFoundError(rpc,
                          <<"The instance ", self.name, " was deleted.">>)
                  ELSE RemoteError(rpc)]
    ELSE [self |-> [name |-> self.name,
                    definition_name |-> rpc.payload.definition_name,
                    status_message |-> rpc.payload.status_message,
                    services |-> [n \in DOMAIN rpc.payload.services |->
                                     Service_from_pim_v1(rpc.payload.services[n])],
                    ready |-> rpc.payload.ready],
          exc |-> NoExc]

\* Instance.update, given the outcome of its GetInstance call
Instance_update(self, rpc) ==
    IF rpc.code # "OK"
    THEN [self |-> self,
          exc |-> IF rpc.code = "NOT_FOUND"
                  THEN InstanceNotFoundError(rpc,
                          <<"The instance ", self.name, " was deleted.">>)
                  ELSE RemoteError(rpc)]
    ELSE [self |-> [name |-> rpc.payload.name,
                    definition_name |-> rpc.payload.definition_name,
                    status_message |-> rpc.payload.status_message,
                    services |-> [n \in DOMAIN rpc.payload.services |->
                                     Service_from_pim_v1(rpc.payload.services[n])],
                    ready |-> rpc.payload.ready],
          exc |-> NoExc]

\* Instance.delete marking the handle as stopped once the remote accepted
Instance_delete_marks_stopped(self, rpc) ==
    [self |-> IF rpc.code = "OK"
              THEN [self EXCEPT !.ready = FALSE, !.services = <<>>]
              ELSE self,
     calls |-> <<Call("DeleteInstance", <<self.name>>, NoneVal)>>,
     exc |-> IF rpc.code # "OK" THEN UncaughtRpcError(rpc) ELSE NoExc]

\* Instance.delete asking the remote a second time after a failure
Instance_delete_retry_on_error(self, rpc) ==
    [self |-> self,
     calls |-> IF rpc.code # "OK"
               THEN <<Call("DeleteInstance", <<self.name>>, NoneVal),
                      Call("DeleteInstance", <<self.name>>, NoneVal)>>
               ELSE <<Call("DeleteInstance", <<self.name>>, NoneVal)>>,
     exc |-> IF rpc.code # "OK" THEN UncaughtRpcError(rpc) ELSE NoExc]

\* Instance.delete, given the outcome of its DeleteInstance call
Instance_delete(self, rpc) ==
    [self |-> self,
     calls |-> <<Call("DeleteInstance", <<self.name>>, NoneVal)>>,
     exc |-> IF rpc.code # "OK" THEN UncaughtRpcError(rpc) ELSE NoExc]

\* Instance.__exit__ deleting only when the body ended without an exception
Instance_exit_only_when_normal(self, raised, rpc) ==
    IF raised
    THEN [self |-> self, calls |-> <<>>, exc |-> NoExc]
    ELSE Instance_delete(self, rpc)

\* Instance.__exit__(*_): the exception information is ignored, the instance
\* is deleted, and nothing is returned
Instance_exit(self, raised, rpc) == Instance_delete(self, rpc)

\* Instance.build_grpc_channel looking the service up before testing ready
Instance_build_grpc_channel_lookup_first(self, service_name) ==
    IF service_name \notin DOMAIN self.services
    THEN [calls |-> <<>>, exc |-> UnsupportedServiceError(self.name, service_name),
          ret |-> <<>>]
    ELSE IF ~self.ready
    THEN [calls |-> <<>>, exc |-> InstanceNotReadyError(self.name), ret |-> <<>>]
    ELSE [calls |-> <<Call("Service._build_grpc_channel", <<service_name>>, NoneVal)>>,
          exc |-> NoExc,
          ret |-> <<Service_build_grpc_channel(self.services[service_name],
                                               NoConfiguration)>>]

\* Instance.build_grpc_channel(service_name)
Instance_build_grpc_channel(self, service_name) ==
    IF ~self.ready
    THEN [calls |-> <<>>, exc |-> InstanceNotReadyError(self.name), ret |-> <<>>]
    ELSE IF service_name \notin DOMAIN self.services
    THEN [calls |-> <<>>, exc |-> UnsupportedServiceError(self.name, service_name),
          ret |-> <<>>]
    ELSE [calls |-> <<Call("Service._build_grpc_channel", <<service_name>>, NoneVal)>>,
          exc |-> NoExc,
          ret |-> <<Service_build_grpc_channel(self.services[service_name],
                                               NoConfiguration)>>]

\* wait_for_ready: the statement it starts with, and where it goes after an
\* update: out by the exception, out of the loop when ready, else to the sleep
wait_entry_sleep_first == "sleep"

wait_entry == "update"

\* wait_next with the loop left after the first update, whatever it reported
wait_next_no_loop(self, exc, trace) ==
    IF exc.type # "none" THEN "raised" ELSE "returned"

\* wait_next with a failed update treated as one more not-ready answer
wait_next_retry_on_error(self, exc, trace) ==
    IF exc.type = "none" /\ self.ready THEN "returned" ELSE "sleep"

\* wait_next giving up after two polls
wait_next_max_polls(self, exc, trace) ==
    IF exc.type # "none" THEN "raised"
    ELSE IF ~self.ready /\ Len(trace) < 3 THEN "sleep"
    ELSE "returned"

wait_next(self, exc, trace) ==
    IF exc.type # "none" THEN "raised"
    ELSE IF ~self.ready THEN "sleep"
    ELSE "returned"

----------------------------------------------------------------------------
(* Definition and Client *)

Definition_from_pim_v1(definition) ==
    [name |-> definition.name,
     product_name |-> definition.product_name,
     product_version |-> definition.product_version,
     available_service_names |-> definition.available_service_names]

\* Definition.create_instance(timeout, configuration)
Definition_create_instance(self, timeout, configuration, rpc) ==
    Instance_create({"definition_name", "stub", "timeout", "configuration"},
                    self.name, timeout, rpc)

\* Client.list_definitions, given the outcome of its ListDefinitions call
Client_list_definitions(product_name, product_version, timeout, rpc) ==
    LET calls == <<Call("ListDefinitions",
                        <<ProtoStr(product_name), ProtoStr(product_version)>>,
                        timeout)>>
    IN IF rpc.code # "OK"
       THEN [calls |-> calls, exc |-> RemoteError(rpc), ret |-> <<>>]
       ELSE [calls |-> calls, exc |-> NoExc,
             ret |-> [i \in 1..Len(rpc.payload) |->
                         Definition_from_pim_v1(rpc.payload[i])]]

\* self._channel.close(): closing a grpc channel, closed or not, closes it
Channel_close(channel) == [channel EXCEPT !.closed = TRUE, !.closes = @ + 1]

\* Client.close()
Client_close(channel) == Channel_close(channel)

\* Client.__exit__ leaving the channel open when the body raised
Client_exit_only_when_normal(channel, raised) ==
    IF raised THEN channel ELSE Channel_close(channel)

\* Client.__exit__(*_): the exception information is ignored, the channel is
\* closed, and nothing is returned
Client_exit(channel, raised) == Channel_close(channel)

\* Client.list_instances telling NOT_FOUND apart as get_instance does
Client_list_instances_not_found_apart(timeout, rpc) ==
    LET calls == <<Call("ListInstances", <<>>, timeout)>>
    IN IF rpc.code # "OK"
       THEN [calls |-> calls, ret |-> <<>>,
             exc |-> IF rpc.code = "NOT_FOUND"
                     THEN InstanceNotFoundError(rpc, <<rpc.details>>)
                     ELSE RemoteError(rpc)]
       ELSE IF Len(rpc.payload) > 0 /\ 3 > Instance_from_pim_v1_max_args
       THEN [calls |-> calls, ret |-> <<>>,
             exc |-> TypeError("Instance._from_pim_v1")]
       ELSE [calls |-> calls, exc |-> NoExc,
             ret |-> [i \in 1..Len(rpc.payload) |->
                         Instance_from_pim_v1(rpc.payload[i])]]

\* Client.list_instances, given the outcome of its ListInstances call: each
\* entry of the response is handed to Instance._from_pim_v1 with the stub and
\* the configuration
Client_list_instances(timeout, rpc) ==
    LET calls == <<Call("ListInstances", <<>>, timeout)>>
    IN IF rpc.code # "OK"
       THEN [calls |-> calls, exc |-> RemoteError(rpc), ret |-> <<>>]
       ELSE IF Len(rpc.payload) > 0 /\ 3 > Instance_from_pim_v1_max_args
       THEN [calls |-> calls, ret |-> <<>>,
             exc |-> TypeError("Instance._from_pim_v1")]
       ELSE [calls |-> calls, exc |-> NoExc,
             ret |-> [i \in 1..Len(rpc.payload) |->
                         Instance_from_pim_v1(rpc.payload[i])]]

\* Client.get_instance with every failure mapped to RemoteError
Client_get_instance_remote_error_only(name, timeout, rpc) ==
    LET calls == <<Call("GetInstance", <<name>>, timeout)>>
    IN IF rpc.code # "OK"
       THEN [calls |-> calls, ret |-> <<>>, exc |-> RemoteError(rpc)]
       ELSE [calls |-> calls, ret |-> <<>>,
             exc |-> TypeError("Instance._from_pim_v1")]

\* Client.get_instance, given the outcome of its GetInstance call
Client_get_instance(name, timeout, rpc) ==
    LET calls == <<Call("GetInstance", <<name>>, timeout)>>
    IN IF rpc.code # "OK"
       THEN [calls |-> calls, ret |-> <<>>,
             exc |-> IF rpc.code = "NOT_FOUND"
                     THEN InstanceNotFoundError(rpc,
                             <<"The instance ", name, " does not exist.">>)
                     ELSE RemoteError(rpc)]
       ELSE IF 3 > Instance_from_pim_v1_max_args
       THEN [calls |-> calls, ret |-> <<>>,
             exc |-> TypeError("Instance._from_pim_v1")]
       ELSE [calls |-> calls, ret |-> <<Instance_from_pim_v1(rpc.payload)>>,
             exc |-> NoExc]

\* Client.create_instance, given the outcomes of the ListDefinitions call and
\* of the CreateInstance call (if one is made)
Client_create_instance(product_name, product_version, requests_timeout, configuration, listRpc, createRpc) ==
    LET listed == Client_list_definitions(product_name, product_version,
                                          requests_timeout, listRpc)
        definitions == listed.ret
    IN IF listed.exc.type # "none"
       THEN [calls |-> listed.calls, exc |-> listed.exc, ret |-> <<>>]
       ELSE IF Len(definitions) = 0
       THEN [calls |-> listed.calls,
             exc |-> UnsupportedProductError(product_name, product_version),
             ret |-> <<>>]
       ELSE LET created == Definition_create_instance(definitions[1],
                               requests_timeout, configuration, createRpc)
            IN [calls |-> listed.calls \o created.calls, exc |-> created.exc,
                ret |-> created.ret]

----------------------------------------------------------------------------
(* Configuration: the configuration file and its loading *)

\* a text is the sequence of its pieces; header keys and header values
HeaderKeys ==
    {<<"authorization">>, <<"Authorization">>, <<"authorization", "-x">>,
     <<"token">>}
HeaderValues ==
    {<<"Bearer ", "007">>, <<"Bearer ", "Bearer ", "007">>, <<"Basic ", "007">>,
     <<"v">>}
HeaderPairs == [key : HeaderKeys, value : HeaderValues]

\* the items of a JSON object: ordered, no key twice
HeaderLists ==
    {h \in SeqsUpTo(HeaderPairs, MaxHeaders) :
        \A i, j \in 1..Len(h) : h[i].key = h[j].key => i = j}

ConfigPaths == {"pim.json"}
PimKeys == {"tls", "uri", "headers"}

\* a file that is not JSON, and JSON objects: with or without "version" and
\* "pim", the latter an object holding some of its keys or a string
NotJson ==
    [kind |-> "text", has_version |-> FALSE, version |-> 0, pim |-> "absent",
     keys |-> {}, tls |-> FALSE, uri |-> "", headers |-> <<>>]
JsonFile(has_version, version, pim, keys, tls, headers) ==
    [kind |-> "json", has_version |-> has_version, version |-> version,
     pim |-> pim, keys |-> keys, tls |-> tls, uri |-> "dns:pim",
     headers |-> headers]
ConfigFiles ==
    {NotJson}
    \cup {JsonFile(FALSE, 0, pim, {}, FALSE, <<>>) : pim \in {"absent", "string"}}
    \cup {JsonFile(TRUE, v, pim, {}, FALSE, <<>>) :
              v \in {1, 2}, pim \in {"absent", "string"}}
    \cup {JsonFile(hv, 2, "object", PimKeys, FALSE, <<>>) : hv \in BOOLEAN}
    \cup {JsonFile(TRUE, 1, "object", keys, tls, <<>>) :
              keys \in SUBSET {"tls", "uri"}, tls \in BOOLEAN}
    \cup {JsonFile(TRUE, 1, "object", keys \cup {"headers"}, tls, h) :
              keys \in SUBSET {"tls", "uri"}, tls \in BOOLEAN, h \in HeaderLists}

\* str(version) in the message
VersionText(v) == IF v = 1 THEN "1" ELSE IF v = 2 THEN "2" ELSE "0"

\* raise InvalidConfigurationError(config_path, message)
InvalidConfigurationError(configuration_path, message) ==
    [type |-> "InvalidConfigurationError",
     message |-> <<configuration_path, " is invalid: ">> \o message,
     cause |-> NoCause, attrs |-> <<configuration_path>>]

\* the lower case of a piece, for flags=re.IGNORECASE
Lower(piece) == IF piece = "Authorization" THEN "authorization" ELSE piece

\* re.match(word, text, flags=re.IGNORECASE): the word at the start of text
re_match_ignorecase(word, text) == Len(text) > 0 /\ Lower(text[1]) = Lower(word)

\* re.match(word, text): the word at the start of text
re_match(word, text) == Len(text) > 0 /\ text[1] = word

\* text.replace(old, ""): every occurrence of old is removed
str_replace(text, old) == SelectSeq(text, LAMBDA piece : piece # old)

\* the search of the authorization header comparing the key in its own case
header_authorization_case_sensitive(headers) ==
    LET found == {i \in 1..Len(headers) :
                     /\ re_match("authorization", headers[i].key)
                     /\ re_match("Bearer ", headers[i].value)}
    IN IF found = {} THEN 0 ELSE CHOOSE i \in found : \A j \in found : i <= j

\* next(filter(...), None) over the headers: the index of the first header
\* that passes both matches, 0 for None
header_authorization(headers) ==
    LET found == {i \in 1..Len(headers) :
                     /\ re_match_ignorecase("authorization", headers[i].key)
                     /\ re_match("Bearer ", headers[i].value)}
    IN IF found = {} THEN 0 ELSE CHOOSE i \in found : \A j \in found : i <= j

\* headers.remove(header): the list without its element at index i
list_remove(headers, i) ==
    [j \in 1..(Len(headers) - 1) |-> IF j < i THEN headers[j] ELSE headers[j + 1]]

Configuration(headers, tls, uri, access_token) ==
    [present |-> TRUE, uri |-> uri, headers |-> headers, tls |-> tls,
     access_token |-> access_token]

\* Configuration.from_file reading the pim settings before it tests the version
Configuration_from_file_pim_first(config_path, f) ==
    LET fail(message) ==
            [exc |-> InvalidConfigurationError(config_path, message), ret |-> <<>>]
        missing(key) ==
            fail(<<"The configuration is missing the entry ", key, ".">>)
    IN IF f.kind # "json" THEN fail(<<"Invalid ", "json", ".">>)
       ELSE IF ~f.has_version THEN missing("version")
       ELSE IF f.pim = "absent" THEN missing("pim")
       ELSE IF f.pim = "string"
       THEN [exc |-> TypeError("pim_configuration[\"tls\"]"), ret |-> <<>>]
       ELSE IF "tls" \notin f.keys THEN missing("tls")
       ELSE IF "uri" \notin f.keys THEN missing("uri")
       ELSE IF "headers" \notin f.keys THEN missing("headers")
       ELSE IF f.version # 1
       THEN fail(<<"Unsupported ", "version", " \"", VersionText(f.version),
                   "\".Consider upgrading ansys-platform-instancemanagement.">>)
       ELSE IF f.tls
       THEN LET i == header_authorization(f.headers)
            IN IF i = 0
               THEN fail(<<"An authorization header with a bearer token is required",
                           " for a secure connection.">>)
               ELSE [exc |-> NoExc,
                     ret |-> <<Configuration(list_remove(f.headers, i), f.tls,
                                   f.uri,
                                   str_replace(f.headers[i].value, "Bearer "))>>]
       ELSE [exc |-> NoExc,
             ret |-> <<Configuration(f.headers, f.tls, f.uri, NoToken)>>]

\* Configuration.from_file(config_path) reading the content f
Configuration_from_file(config_path, f) ==
    LET fail(message) ==
            [exc |-> InvalidConfigurationError(config_path, message), ret |-> <<>>]
        missing(key) ==
            fail(<<"The configuration is missing the entry ", key, ".">>)
    IN IF f.kind # "json" THEN fail(<<"Invalid ", "json", ".">>)
       ELSE IF ~f.has_version THEN missing("version")
       ELSE IF f.version # 1
       THEN fail(<<"Unsupported ", "version", " \"", VersionText(f.version),
                   "\".Consider upgrading ansys-platform-instancemanagement.">>)
       ELSE IF f.pim = "absent" THEN missing("pim")
       ELSE IF f.pim = "string"
       THEN [exc |-> TypeError("pim_configuration[\"tls\"]"), ret |-> <<>>]
       ELSE IF "tls" \notin f.keys THEN missing("tls")
       ELSE IF "uri" \notin f.keys THEN missing("uri")
       ELSE IF "headers" \notin f.keys THEN missing("headers")
       ELSE IF f.tls
       THEN LET i == header_authorization(f.headers)
            IN IF i = 0
               THEN fail(<<"An authorization header with a bearer token is required",
                           " for a secure connection.">>)
               ELSE [exc |-> NoExc,
                     ret |-> <<Configuration(list_remove(f.headers, i), f.tls,
                                   f.uri,
                                   str_replace(f.headers[i].value, "Bearer "))>>]
       ELSE [exc |-> NoExc,
             ret |-> <<Configuration(f.headers, f.tls, f.uri, NoToken)>>]

----------------------------------------------------------------------------
(* The header adding interceptor *)

\* metadata pairs (key, value); the caller and the configuration may use the
\* same pair
MetadataPairs == {<<"k1", "v1">>, <<"k2", "v2">>}
InterceptorHeaders == SeqsUpTo(MetadataPairs, MaxHeaders)

\* client_call_details.metadata: None, or a sequence of pairs
NoMetadata == [none |-> TRUE, items |-> <<>>]
CallMetadata ==
    {NoMetadata} \cup
    {[none |-> FALSE, items |-> m] : m \in SeqsUpTo(MetadataPairs, MaxMetadata)}

CallMethods == {"/PlatformInstanceManagement/GetInstance"}
CallCredentials == {NoneVal, "creds"}
Messages == {"m1", "m2"}
RequestStreams == SeqsUpTo(Messages, MaxRequests)
Responses == {"r1"}
ResponseStreams == {<<>>, <<"r1", "r2">>}

_ClientCallDetails(method, timeout, metadata, credentials) ==
    [method |-> method, timeout |-> timeout, metadata |-> metadata,
     credentials |-> credentials]

ClientCallDetails ==
    {_ClientCallDetails(m, t, md, c) :
        m \in CallMethods, t \in Timeouts, md \in CallMetadata,
        c \in CallCredentials}

\* intercept_call with the configured pairs put in place of the caller's
intercept_call_replaces(headers, client_call_details, request_iterator) ==
    [details |-> _ClientCallDetails(client_call_details.method,
                                    client_call_details.timeout,
                                    [none |-> FALSE, items |-> headers],
                                    client_call_details.credentials),
     request_iterator |-> request_iterator,
     postprocess |-> NoneVal]

\* intercept_call of header_adder_interceptor(headers)
intercept_call(headers, client_call_details, request_iterator) ==
    LET metadata == IF ~client_call_details.metadata.none
                    THEN client_call_details.metadata.items
                    ELSE <<>>
        appended == metadata \o [i \in 1..Len(headers) |->
                                    <<headers[i][1], headers[i][2]>>]
    IN [details |-> _ClientCallDetails(client_call_details.method,
                                       client_call_details.timeout,
                                       [none |-> FALSE, items |-> appended],
                                       client_call_details.credentials),
        request_iterator |-> request_iterator,
        postprocess |-> NoneVal]

\* what the continuation is called with, and what the caller gets back
Intercepted(new_details, request, response) ==
    [sent |-> [details |-> new_details, request |-> request], ret |-> response]

\* _GenericClientInterceptor.intercept_unary_unary, _fn being intercept_call of
\* the given headers; response is what the continuation returns
intercept_unary_unary(headers, client_call_details, request, response) ==
    LET r == intercept_call(headers, client_call_details, <<request>>)
    IN Intercepted(r.details, Head(r.request_iterator), response)

intercept_unary_stream(headers, client_call_details, request, response_it) ==
    LET r == intercept_call(headers, client_call_details, <<request>>)
    IN Intercepted(r.details, Head(r.request_iterator), response_it)

intercept_stream_unary(headers, client_call_details, request_iterator, response) ==
    LET r == intercept_call(headers, client_call_details, request_iterator)
    IN Intercepted(r.details, r.request_iterator, response)

intercept_stream_stream(headers, client_call_details, request_iterator, response_it) ==
    LET r == intercept_call(headers, client_call_details, request_iterator)
    IN Intercepted(r.details, r.request_iterator, response_it)

----------------------------------------------------------------------------
(* State *)

\* the answers the remote can give to GetInstance in its current state
GetInstanceAnswers ==
    IF srv \in ErrCodes
    THEN {RpcError(srv, d) : d \in Details}
    ELSE IF srv = "corrupt"
    THEN {RpcOk(i) : i \in MalformedInstanceV1}
    ELSE {RpcOk(i) : i \in {j \in InstanceV1 : j.ready = (srv = "running")}}

\* the answers the remote can give to CreateInstance in its current state
CreateInstanceAnswers ==
    IF srv = "corrupt"
    THEN {RpcOk(i) : i \in MalformedInstanceV1}
    ELSE {RpcOk(i) : i \in InstanceV1} \cup RpcErrors

\* the answers the remote can give to ListDefinitions in its current state
ListDefinitionsAnswers ==
    IF srv = "corrupt"
    THEN {RpcOk(l) : l \in MalformedDefinitionLists}
    ELSE {RpcOk(l) : l \in DefinitionLists} \cup ListRpcErrors

Idle == [pc |-> "idle", trace |-> <<>>, overflow |-> FALSE, ev |-> "none",
         startReady |-> FALSE]

\* an operation: its arguments, the calls it made, the statuses the remote
\* answered them with, and what it raised or returned
NoOp == [op |-> "none", args |-> <<>>, calls |-> <<>>, answers |-> <<>>,
         done |-> TRUE, exc |-> NoExc, ret |-> <<>>, listed |-> <<>>]

Finished(op, args, calls, answers, exc, ret) ==
    [op |-> op, args |-> args, calls |-> calls, answers |-> answers,
     done |-> TRUE, exc |-> exc, ret |-> ret, listed |-> <<>>]

\* no thread is inside update or build_grpc_channel; the handle holds response 0
NoReader ==
    [pc |-> "idle", ready |-> FALSE, readyVer |-> 0, services |-> <<>>,
     servicesVer |-> 0]
NoThreads ==
    [pc |-> 0, resps |-> <<>>, ver |-> [services |-> 0, ready |-> 0],
     rd |-> NoReader]

\* the channel a Client is constructed on, outside any with scope
OpenChannel == [closed |-> FALSE, scope |-> "out", raised |-> FALSE, closes |-> 0]

\* no handle yet: nothing produced it, no deletion asked, no with scope
NoLife == [origin |-> "none", dels |-> 0, scope |-> "out", raised |-> FALSE]

\* no configuration file is read
NoFile == [kind |-> "none"]

Init ==
    /\ handle = NoInstance
    /\ srv = "starting"
    /\ wait = Idle
    /\ last = NoOp
    /\ lastGet = NoInstance
    /\ config = NoConfiguration
    /\ chan = OpenChannel
    /\ life = NoLife
    /\ file = NoFile
    /\ thr = NoThreads

\* the client is constructed with any of the configurations
InitConfigured ==
    /\ handle = NoInstance
    /\ srv = "starting"
    /\ wait = Idle
    /\ last = NoOp
    /\ lastGet = NoInstance
    /\ config \in ClientConfigurations
    /\ chan = OpenChannel
    /\ life = NoLife
    /\ file = NoFile
    /\ thr = NoThreads

\* a configuration file is about to be loaded
InitConfiguration ==
    /\ handle = NoInstance
    /\ srv = "starting"
    /\ wait = Idle
    /\ last = NoOp
    /\ lastGet = NoInstance
    /\ config = NoConfiguration
    /\ chan = OpenChannel
    /\ life = NoLife
    /\ file \in ConfigFiles
    /\ thr = NoThreads

HasHandle == handle # NoInstance
InWait == wait.pc \in {"update", "sleep"}

\* an exception raised in the body of a with statement leaves the body
Raised(scope, exc) ==
    IF scope.scope = "in" /\ exc.type # "none"
    THEN [scope EXCEPT !.raised = TRUE]
    ELSE scope

\* an exception is on its way out of a with body: __exit__ runs next
Unwinding == (life.scope = "in" /\ life.raised) \/ (chan.scope = "in" /\ chan.raised)

\* the caller can make a remote call: it is not inside a wait, no exception
\* is propagating, and the channel of the stub is open
CanCall == ~InWait /\ ~Unwinding /\ ~chan.closed

\* the remote changes what it answers
ServerStep ==
    /\ \E s \in SrvStates \ {srv} : srv' = s
    /\ UNCHANGED <<handle, wait, last, lastGet, config, chan, life, file, thr>>

\* the remote becomes faulty: from now on it answers malformed records
ServerCorrupt ==
    /\ srv # "corrupt"
    /\ srv' = "corrupt"
    /\ UNCHANGED <<handle, wait, last, lastGet, config, chan, life, file, thr>>

\* a caller obtains the handle: Instance._create(definition_name, stub)
InstanceCreate ==
    /\ CanCall
    /\ ~HasHandle
    /\ \E definition_name \in DefNames, rpc \in CreateInstanceAnswers :
        LET res == Instance_create({"definition_name", "stub"},
                                   definition_name, NoneVal, rpc)
        IN /\ handle' = IF res.exc.type = "none" THEN res.ret[1] ELSE handle
           /\ last' = [Finished("Instance._create", <<definition_name>>,
                                res.calls, <<rpc.code>>, res.exc, <<>>)
                           EXCEPT !.listed = IF rpc.code = "OK"
                                             THEN <<rpc.payload>> ELSE <<>>]
           /\ life' = IF res.exc.type = "none"
                      THEN [life EXCEPT !.origin = "Instance._create"]
                      ELSE life
           /\ chan' = Raised(chan, res.exc)
    /\ UNCHANGED <<srv, wait, lastGet, config, file, thr>>

\* Instance.update()
Update ==
    /\ CanCall
    /\ HasHandle
    /\ \E rpc \in GetInstanceAnswers :
        LET res == Instance_update(handle, rpc)
        IN /\ handle' = res.self
           /\ lastGet' = rpc.payload
           /\ last' = Finished("update", <<>>,
                               <<Call("GetInstance", <<handle.name>>, NoneVal)>>,
                               <<rpc.code>>, res.exc, <<>>)
           /\ life' = Raised(life, res.exc)
           /\ chan' = Raised(chan, res.exc)
    /\ wait' = Idle
    /\ UNCHANGED <<srv, config, file, thr>>

\* Instance.delete()
Delete ==
    /\ CanCall
    /\ HasHandle
    /\ life.dels < MaxDeletes - (IF life.scope = "in" THEN 1 ELSE 0)
    /\ \E rpc \in {RpcOk(NoInstance)} \cup RpcErrors :
        LET res == Instance_delete(handle, rpc)
        IN /\ handle' = res.self
           /\ last' = Finished("delete", <<>>, res.calls, <<rpc.code>>, res.exc,
                               <<>>)
           /\ life' = [Raised(life, res.exc) EXCEPT !.dels = @ + Len(res.calls)]
           /\ chan' = Raised(chan, res.exc)
    /\ lastGet' = NoInstance
    /\ wait' = Idle
    /\ UNCHANGED <<srv, config, file, thr>>

\* with instance: the handle is entered as a context manager
InstanceEnter ==
    /\ CanCall
    /\ HasHandle
    /\ life.scope = "out"
    /\ life.dels < MaxDeletes
    /\ life' = [life EXCEPT !.scope = "in", !.raised = FALSE]
    /\ last' = Finished("Instance.__enter__", <<>>, <<>>, <<>>, NoExc, <<>>)
    /\ lastGet' = NoInstance
    /\ wait' = Idle
    /\ UNCHANGED <<handle, srv, config, chan, file, thr>>

\* the with body is left, at its end or by an exception: Instance.__exit__
\* runs; an exception of the body goes on unless the delete raises its own
InstanceExit ==
    /\ ~InWait
    /\ life.scope = "in"
    /\ \E rpc \in {RpcOk(NoInstance)} \cup RpcErrors :
        LET res == Instance_exit(handle, life.raised, rpc)
            exc == IF res.exc.type # "none" THEN res.exc
                   ELSE IF life.raised THEN last.exc ELSE NoExc
        IN /\ handle' = res.self
           /\ last' = Finished("Instance.__exit__", <<>>, res.calls,
                               IF Len(res.calls) > 0 THEN <<rpc.code>> ELSE <<>>,
                               exc, <<>>)
           /\ life' = [life EXCEPT !.scope = "out", !.raised = FALSE,
                                   !.dels = @ + Len(res.calls)]
           /\ chan' = Raised(chan, exc)
    /\ lastGet' = NoInstance
    /\ wait' = Idle
    /\ UNCHANGED <<srv, config, file, thr>>

\* Instance.build_grpc_channel(service_name)
BuildChannel ==
    /\ ~InWait
    /\ ~Unwinding
    /\ HasHandle
    /\ \E service_name \in RequestedSvcNames :
        LET res == Instance_build_grpc_channel(handle, service_name)
        IN /\ last' = Finished("build_grpc_channel", <<service_name>>,
                               res.calls, <<>>, res.exc, res.ret)
           /\ life' = Raised(life, res.exc)
           /\ chan' = Raised(chan, res.exc)
    /\ lastGet' = NoInstance
    /\ wait' = Idle
    /\ UNCHANGED <<handle, srv, config, file, thr>>

----------------------------------------------------------------------------
(* wait_for_ready, one step per update and per sleep *)

Log(w, e) ==
    IF Len(w.trace) < MaxTrace
    THEN [w EXCEPT !.trace = Append(@, e), !.ev = e]
    ELSE [w EXCEPT !.overflow = TRUE, !.ev = e]

\* the call of Instance.wait_for_ready()
WaitStart ==
    /\ CanCall
    /\ HasHandle
    /\ wait' = [pc |-> wait_entry, trace |-> <<>>, overflow |-> FALSE,
                ev |-> "none", startReady |-> handle.ready]
    /\ last' = [NoOp EXCEPT !.op = "wait_for_ready", !.done = FALSE]
    /\ lastGet' = NoInstance
    /\ UNCHANGED <<handle, srv, config, chan, life, file, thr>>

\* self.update() in wait_for_ready, before the loop and at the end of its body
WaitUpdate ==
    /\ wait.pc = "update"
    /\ \E rpc \in GetInstanceAnswers :
        LET res == Instance_update(handle, rpc)
            event == IF rpc.code # "OK" THEN "UE"
                     ELSE IF rpc.payload.ready THEN "U1" ELSE "U0"
            nxt == wait_next(res.self, res.exc, wait.trace)
        IN /\ handle' = res.self
           /\ lastGet' = IF rpc.code = "OK" THEN rpc.payload ELSE lastGet
           /\ IF nxt = "sleep"
              THEN /\ wait' = [Log(wait, event) EXCEPT !.pc = "sleep"]
                   /\ UNCHANGED last
              ELSE /\ wait' = [Log(wait, event) EXCEPT !.pc = nxt]
                   /\ last' = Finished("wait_for_ready", <<>>, <<>>, <<>>,
                                       IF nxt = "raised" THEN res.exc ELSE NoExc,
                                       <<>>)
           /\ life' = Raised(life, IF nxt = "raised" THEN res.exc ELSE NoExc)
           /\ chan' = Raised(chan, IF nxt = "raised" THEN res.exc ELSE NoExc)
    /\ UNCHANGED <<srv, config, file, thr>>

\* time.sleep(polling_interval) in the loop of wait_for_ready
WaitSleep ==
    /\ wait.pc = "sleep"
    /\ wait' = [Log(wait, "S") EXCEPT !.pc = "update"]
    /\ UNCHANGED <<handle, srv, last, lastGet, config, chan, life, file, thr>>

----------------------------------------------------------------------------
(* The client *)

\* Client.get_instance(name, timeout), another way to obtain the handle
ClientGetInstance ==
    /\ CanCall
    /\ ~HasHandle
    /\ \E name \in InstNames, timeout \in Timeouts, rpc \in GetInstanceAnswers :
        LET res == Client_get_instance(name, timeout, rpc)
        IN /\ last' = [Finished("get_instance", <<name, timeout>>, res.calls,
                                <<rpc.code>>, res.exc, res.ret)
                           EXCEPT !.listed = IF rpc.code = "OK"
                                             THEN <<rpc.payload>> ELSE <<>>]
           /\ handle' = IF res.ret # <<>> THEN res.ret[1] ELSE handle
           /\ life' = IF res.ret # <<>>
                      THEN [Raised(life, res.exc)
                            EXCEPT !.origin = "Client.get_instance"]
                      ELSE Raised(life, res.exc)
           /\ chan' = Raised(chan, res.exc)
    /\ UNCHANGED <<srv, wait, lastGet, config, file, thr>>

\* Client.list_definitions(product_name, product_version, timeout)
ClientListDefinitions ==
    /\ CanCall
    /\ \E product_name \in ProductNames, product_version \in ProductVersions,
          timeout \in Timeouts, rpc \in ListDefinitionsAnswers :
        LET res == Client_list_definitions(product_name, product_version,
                                           timeout, rpc)
        IN /\ last' = [Finished("list_definitions",
                                <<product_name, product_version, timeout>>,
                                res.calls, <<rpc.code>>, res.exc, res.ret)
                           EXCEPT !.listed = rpc.payload]
           /\ life' = Raised(life, res.exc)
           /\ chan' = Raised(chan, res.exc)
    /\ UNCHANGED <<handle, srv, wait, lastGet, config, file, thr>>

\* client.close()
ClientClose ==
    /\ ~InWait
    /\ ~Unwinding
    /\ chan.closes < MaxCloses - (IF chan.scope = "in" THEN 1 ELSE 0)
    /\ chan' = Client_close(chan)
    /\ last' = Finished("close", <<>>, <<>>, <<>>, NoExc, <<>>)
    /\ UNCHANGED <<handle, srv, wait, lastGet, config, life, file, thr>>

\* with client: the client is entered as a context manager
ClientEnter ==
    /\ ~InWait
    /\ ~Unwinding
    /\ chan.scope = "out"
    /\ chan.closes < MaxCloses
    /\ chan' = [chan EXCEPT !.scope = "in", !.raised = FALSE]
    /\ last' = Finished("Client.__enter__", <<>>, <<>>, <<>>, NoExc, <<>>)
    /\ UNCHANGED <<handle, srv, wait, lastGet, config, life, file, thr>>

\* the with body is left, at its end or by an exception: Client.__exit__ runs
\* and an exception of the body goes on
ClientExit ==
    /\ ~InWait
    /\ chan.scope = "in"
    /\ life.scope # "in"
    /\ chan' = [Client_exit(chan, chan.raised)
                EXCEPT !.scope = "left", !.raised = FALSE]
    /\ last' = Finished("Client.__exit__", <<>>, <<>>, <<>>,
                        IF chan.raised THEN last.exc ELSE NoExc, <<>>)
    /\ UNCHANGED <<handle, srv, wait, lastGet, config, life, file, thr>>

\* Client.list_instances(timeout)
ClientListInstances ==
    /\ CanCall
    /\ \E timeout \in Timeouts,
          rpc \in {RpcOk(l) : l \in InstanceLists} \cup ListRpcErrors :
        LET res == Client_list_instances(timeout, rpc)
        IN /\ last' = [Finished("list_instances", <<timeout>>, res.calls,
                                <<rpc.code>>, res.exc, res.ret)
                           EXCEPT !.listed = rpc.payload]
           /\ life' = Raised(life, res.exc)
           /\ chan' = Raised(chan, res.exc)
    /\ UNCHANGED <<handle, srv, wait, lastGet, config, file, thr>>

\* Client.create_instance(product_name, product_version, requests_timeout);
\* the remote answers a CreateInstance call only if one is issued
ClientCreateInstance ==
    /\ CanCall
    /\ ~HasHandle
    /\ \E product_name \in ProductNames, product_version \in ProductVersions,
          timeout \in Timeouts,
          listRpc \in {RpcOk(l) : l \in DefinitionLists} \cup ListRpcErrors :
        LET probe == Client_create_instance(product_name, product_version,
                         timeout, config, listRpc, RpcOk(NoInstance))
            asked == \E i \in 1..Len(probe.calls) :
                        probe.calls[i].method = "CreateInstance"
        IN \E createRpc \in IF asked
                            THEN {RpcOk(i) : i \in InstanceV1} \cup RpcErrors
                            ELSE {RpcOk(NoInstance)} :
            LET res == Client_create_instance(product_name, product_version,
                           timeout, config, listRpc, createRpc)
            IN /\ last' = [Finished("create_instance",
                                    <<product_name, product_version, timeout>>,
                                    res.calls,
                                    IF asked THEN <<listRpc.code, createRpc.code>>
                                    ELSE <<listRpc.code>>,
                                    res.exc, res.ret)
                           EXCEPT !.listed = listRpc.payload]
               /\ handle' = IF res.ret # <<>> THEN res.ret[1] ELSE handle
               /\ life' = IF res.ret # <<>>
                          THEN [Raised(life, res.exc)
                                EXCEPT !.origin = "Client.create_instance"]
                          ELSE Raised(life, res.exc)
               /\ chan' = Raised(chan, res.exc)
    /\ UNCHANGED <<srv, wait, lastGet, config, file, thr>>

\* Configuration.from_file(config_path)
FromFile ==
    /\ file \in ConfigFiles
    /\ \E config_path \in ConfigPaths :
        LET res == Configuration_from_file(config_path, file)
        IN last' = Finished("from_file", <<config_path>>, <<>>, <<>>, res.exc,
                            res.ret)
    /\ UNCHANGED <<handle, srv, wait, lastGet, config, chan, life, file, thr>>

\* Configuration(headers, tls, uri, access_token) called directly
ConfigurationInit ==
    /\ file \in ConfigFiles
    /\ \E tls \in BOOLEAN, access_token \in {NoToken, <<"007">>} :
        last' = Finished("Configuration", <<>>, <<>>, <<>>, NoExc,
                         <<Configuration(<<>>, tls, "dns:pim", access_token)>>)
    /\ UNCHANGED <<handle, srv, wait, lastGet, config, chan, life, file, thr>>

\* a call about to leave through a channel wrapped by
\* header_adder_interceptor(headers)
CallShapes == {"unary_unary", "unary_stream", "stream_unary", "stream_stream"}

Outgoing(shape, headers, client_call_details, request) ==
    [NoOp EXCEPT !.op = shape, !.done = FALSE,
                 !.args = <<headers, client_call_details, request>>]

OutgoingCalls ==
    {Outgoing(shape, h, d, <<m>>) :
        shape \in {"unary_unary", "unary_stream"}, h \in InterceptorHeaders,
        d \in ClientCallDetails, m \in Messages}
    \cup
    {Outgoing(shape, h, d, it) :
        shape \in {"stream_unary", "stream_stream"}, h \in InterceptorHeaders,
        d \in ClientCallDetails, it \in RequestStreams}

InitInterceptor ==
    /\ handle = NoInstance
    /\ srv = "starting"
    /\ wait = Idle
    /\ last \in OutgoingCalls
    /\ lastGet = NoInstance
    /\ config = NoConfiguration
    /\ chan = OpenChannel
    /\ life = NoLife
    /\ file = NoFile
    /\ thr = NoThreads

Pending(shape) == last.op = shape /\ ~last.done

Passed(res) == [last EXCEPT !.done = TRUE, !.calls = <<res.sent>>, !.ret = <<res.ret>>]

InterceptUnaryUnary ==
    /\ Pending("unary_unary")
    /\ \E response \in Responses :
        last' = Passed(intercept_unary_unary(last.args[1], last.args[2],
                                             last.args[3][1], response))
    /\ UNCHANGED <<handle, srv, wait, lastGet, config, chan, life, file, thr>>

InterceptUnaryStream ==
    /\ Pending("unary_stream")
    /\ \E response_it \in ResponseStreams :
        last' = Passed(intercept_unary_stream(last.args[1], last.args[2],
                                              last.args[3][1], response_it))
    /\ UNCHANGED <<handle, srv, wait, lastGet, config, chan, life, file, thr>>

InterceptStreamUnary ==
    /\ Pending("stream_unary")
    /\ \E response \in Responses :
        last' = Passed(intercept_stream_unary(last.args[1], last.args[2],
                                              last.args[3], response))
    /\ UNCHANGED <<handle, srv, wait, lastGet, config, chan, life, file, thr>>

InterceptStreamStream ==
    /\ Pending("stream_stream")
    /\ \E response_it \in ResponseStreams :
        last' = Passed(intercept_stream_stream(last.args[1], last.args[2],
                                               last.args[3], response_it))
    /\ UNCHANGED <<handle, srv, wait, lastGet, config, chan, life, file, thr>>

\* the responses answered to the updating thread: the same instance, its
\* grpc service and its readiness changing
ThreadResponses ==
    {i \in InstanceV1 : /\ i.name = "instances/a"
                        /\ i.definition_name = "definitions/d1"
                        /\ i.status_message = ""
                        /\ DOMAIN i.services \subseteq {"grpc"}}

\* a handle just created, not ready and without services, shared by two threads
InitThreads ==
    /\ handle = [NoInstance EXCEPT !.name = "instances/a",
                                   !.definition_name = "definitions/d1",
                                   !.status_message = ""]
    /\ srv = "starting"
    /\ wait = Idle
    /\ last = NoOp
    /\ lastGet = NoInstance
    /\ config = NoConfiguration
    /\ chan = OpenChannel
    /\ life = [NoLife EXCEPT !.origin = "Instance._create"]
    /\ file = NoFile
    /\ thr = NoThreads

\* Instance.update in the updating thread: GetInstance is answered
ThreadUpdateCall ==
    /\ thr.pc = 0
    /\ Len(thr.resps) < MaxUpdates
    /\ \E instance \in ThreadResponses :
        thr' = [thr EXCEPT !.pc = 1, !.resps = Append(@, instance)]
    /\ UNCHANGED <<handle, srv, wait, last, lastGet, config, chan, life, file>>

\* Instance.update in the updating thread: its next assignment
ThreadUpdateWrite ==
    /\ thr.pc \in 1..Len(update_writes)
    /\ LET field == update_writes[thr.pc]
           new == Instance_update(handle, RpcOk(thr.resps[Len(thr.resps)])).self
       IN /\ handle' = [handle EXCEPT ![field] = new[field]]
          /\ thr' = [thr EXCEPT
                        !.pc = IF thr.pc = Len(update_writes) THEN 0 ELSE @ + 1,
                        !.ver = IF field \in {"services", "ready"}
                                THEN [@ EXCEPT ![field] = Len(thr.resps)]
                                ELSE @]
    /\ UNCHANGED <<srv, wait, last, lastGet, config, chan, life, file>>

\* Instance.build_grpc_channel in the reading thread: if not self.ready
ThreadReadReady ==
    /\ thr.rd.pc \in {"idle", "done", "raised"}
    /\ thr' = [thr EXCEPT !.rd = [NoReader EXCEPT
                    !.pc = IF handle.ready THEN "services" ELSE "raised",
                    !.ready = handle.ready,
                    !.readyVer = thr.ver.ready]]
    /\ UNCHANGED <<handle, srv, wait, last, lastGet, config, chan, life, file>>

\* Instance.build_grpc_channel in the reading thread: self.services.get(...)
ThreadReadServices ==
    /\ thr.rd.pc = "services"
    /\ thr' = [thr EXCEPT !.rd.pc = "done",
                          !.rd.services = handle.services,
                          !.rd.servicesVer = thr.ver.services]
    /\ UNCHANGED <<handle, srv, wait, last, lastGet, config, chan, life, file>>

----------------------------------------------------------------------------
(* Specifications *)

\* one handle: created, refreshed, deleted, asked for channels
NextInstance ==
    \/ ServerStep
    \/ InstanceCreate
    \/ ClientGetInstance
    \/ Update
    \/ Delete
    \/ BuildChannel

SpecInstance == Init /\ [][NextInstance]_vars

\* one handle polled by wait_for_ready
NextWait ==
    \/ ServerStep
    \/ InstanceCreate
    \/ WaitStart
    \/ WaitUpdate
    \/ WaitSleep

SpecWait == Init /\ [][NextWait]_vars

\* the poll loop keeps running: neither the update nor the sleep blocks forever
LiveSpecWait == SpecWait /\ WF_vars(WaitUpdate) /\ WF_vars(WaitSleep)

\* the client's operations
NextClient ==
    \/ ServerStep
    \/ ClientGetInstance
    \/ ClientListDefinitions
    \/ ClientListInstances
    \/ ClientCreateInstance

SpecClient == Init /\ [][NextClient]_vars

\* one handle used as the context manager of a with statement
NextScope ==
    \/ InstanceCreate
    \/ InstanceEnter
    \/ Update
    \/ Delete
    \/ BuildChannel
    \/ InstanceExit

SpecScope == Init /\ [][NextScope]_vars

\* the client closed by close() and used as a with scope
NextClientScope ==
    \/ ClientEnter
    \/ ClientListDefinitions
    \/ ClientClose
    \/ ClientExit

SpecClientScope == Init /\ [][NextClientScope]_vars

\* the configuration file is loaded, or a Configuration is constructed
NextConfiguration ==
    \/ FromFile
    \/ ConfigurationInit

SpecConfiguration == InitConfiguration /\ [][NextConfiguration]_vars

\* a remote that may send malformed records
NextCorrupt ==
    \/ ServerCorrupt
    \/ ClientListDefinitions

SpecCorrupt == Init /\ [][NextCorrupt]_vars

\* one handle created and refreshed while the remote may send malformed records
NextCorruptInstance ==
    \/ ServerCorrupt
    \/ InstanceCreate
    \/ Update

SpecCorruptInstance == Init /\ [][NextCorruptInstance]_vars

\* calls leaving through the header adding interceptor
NextInterceptor ==
    \/ InterceptUnaryUnary
    \/ InterceptUnaryStream
    \/ InterceptStreamUnary
    \/ InterceptStreamStream

SpecInterceptor == InitInterceptor /\ [][NextInterceptor]_vars

\* one thread updating the handle while another builds a channel from it
NextThreads ==
    \/ ThreadUpdateCall
    \/ ThreadUpdateWrite
    \/ ThreadReadReady
    \/ ThreadReadServices

SpecThreads == InitThreads /\ [][NextThreads]_vars

\* every operation that calls the remote
NextCalls ==
    \/ ServerStep
    \/ InstanceCreate
    \/ ClientGetInstance
    \/ ~HasHandle /\ ClientListDefinitions
    \/ ~HasHandle /\ ClientListInstances
    \/ ClientCreateInstance
    \/ Update
    \/ Delete
    \/ WaitStart
    \/ WaitUpdate
    \/ WaitSleep

SpecCalls == Init /\ [][NextCalls]_vars

\* a client holding a configuration creates instances; handles build channels
NextConfigured ==
    \/ ClientCreateInstance
    \/ InstanceCreate
    \/ BuildChannel

SpecConfigured == InitConfigured /\ [][NextConfigured]_vars

----------------------------------------------------------------------------
(* wait_for_ready *)

WaitReturned == wait.pc = "returned"
WaitRaised == wait.pc = "raised"

Count(t, E) == Cardinality({i \in 1..Len(t) : t[i] \in E})

\* C1: whenever wait_for_ready has returned normally, the handle is ready and
\* its services are those of the last GetInstance response received during
\* the wait.
C1_WaitReturnsReady ==
    WaitReturned =>
        /\ last.op = "wait_for_ready" /\ last.done /\ last.exc = NoExc
        /\ handle.ready = TRUE
        /\ lastGet \in InstanceV1
        /\ lastGet.ready = TRUE
        /\ handle.services = [n \in DOMAIN lastGet.services |->
                                 [uri |-> lastGet.services[n].uri,
                                  headers |-> lastGet.services[n].headers]]

C1_Witness ==
    /\ WaitReturned
    /\ Len(wait.trace) >= 3
    /\ DOMAIN handle.services = {"grpc", "http"}

\* C2: the events of a wait alternate update, sleep, update, ..., starting
\* with an update; a wait that returns after k not-ready answers has made
\* exactly k+1 updates and k sleeps, its last event being the ready answer,
\* also when the handle was ready before the call.
C2_WaitAlternates ==
    (wait.pc # "idle" /\ ~wait.overflow) =>
        LET t == wait.trace
            k == Count(t, {"U0"})
        IN /\ \A i \in 1..Len(t) : (t[i] = "S") <=> (i % 2 = 0)
           /\ WaitReturned =>
                /\ Count(t, {"U0", "U1", "UE"}) = k + 1
                /\ Count(t, {"S"}) = k
                /\ Len(t) = 2 * k + 1
                /\ t[Len(t)] = "U1"
                /\ \A i \in 1..(Len(t) - 1) : t[i] \in {"U0", "S"}

C2_Witness ==
    /\ WaitReturned
    /\ wait.startReady
    /\ wait.trace = <<"U0", "S", "U0", "S", "U1">>

\* C3: an update of wait_for_ready that fails ends the wait at once with the
\* error of that update (InstanceNotFoundError for NOT_FOUND, RemoteError
\* otherwise); the failed update is the last event of the wait and the handle
\* keeps the state of the last successful poll.
C3_RaisedState ==
    WaitRaised =>
        /\ last.op = "wait_for_ready" /\ last.done
        /\ wait.ev = "UE"
        /\ ~wait.overflow =>
              /\ wait.trace[Len(wait.trace)] = "UE"
              /\ Count(wait.trace, {"UE"}) = 1
        /\ lastGet # NoInstance => handle = Instance_from_pim_v1(lastGet)

C3_FailedPollStep ==
    (wait.pc = "update" /\ wait'.pc # "update" /\ wait'.ev = "UE") =>
        /\ wait'.pc = "raised"
        /\ handle' = handle
        /\ last'.exc.type =
              (IF srv = "NOT_FOUND" THEN "InstanceNotFoundError" ELSE "RemoteError")
        /\ last'.exc.cause.code = srv

C3_WaitPropagatesError == []C3_RaisedState /\ [][C3_FailedPollStep]_vars

C3_Witness ==
    /\ WaitRaised
    /\ wait.trace = <<"U0", "S", "U0", "S", "UE">>
    /\ last.exc.type = "InstanceNotFoundError"

\* C4: under fair scheduling of the poll loop a wait ends unless the remote
\* keeps answering not-ready, and while the remote answers not-ready no step
\* ends the wait, however many polls were made.
C4_WaitTerminatesOnlyOnAnswer ==
    /\ InWait ~> (~InWait \/ srv = "starting")
    /\ [][(InWait /\ srv = "starting" /\ srv' = "starting") => InWait']_vars

C4_Witness ==
    /\ InWait
    /\ wait.overflow
    /\ srv = "starting"

----------------------------------------------------------------------------
(* update and get_instance *)

UpdateFailed == last.op = "update" /\ last.answers[1] \in ErrCodes
UpdateSucceeded == last.op = "update" /\ last.answers = <<"OK">>

\* C5: an update whose GetInstance call fails, with NOT_FOUND or any other
\* status, changes none of name, definition_name, status_message, services
\* and ready of the handle.
C5_FailedUpdateStep ==
    (last'.op = "update" /\ last'.answers[1] \in ErrCodes) =>
        /\ handle'.name = handle.name
        /\ handle'.definition_name = handle.definition_name
        /\ handle'.status_message = handle.status_message
        /\ handle'.services = handle.services
        /\ handle'.ready = handle.ready

C5_FailedUpdateKeepsState == [][C5_FailedUpdateStep]_vars

C5_Witness ==
    /\ UpdateFailed
    /\ last.exc.type = "RemoteError"
    /\ handle.ready
    /\ DOMAIN handle.services = {"grpc", "http"}

\* C6: after a successful update the handle's name, definition_name,
\* status_message, services and ready are those of the GetInstance response;
\* the services have exactly the response's keys, so a key of the previous
\* snapshot survives only if the response contains it.
C6_UpdatedState ==
    UpdateSucceeded =>
        /\ last.exc = NoExc
        /\ handle.name = lastGet.name
        /\ handle.definition_name = lastGet.definition_name
        /\ handle.status_message = lastGet.status_message
        /\ handle.ready = lastGet.ready
        /\ DOMAIN handle.services = DOMAIN lastGet.services
        /\ \A n \in DOMAIN lastGet.services :
              /\ handle.services[n].uri = lastGet.services[n].uri
              /\ handle.services[n].headers = lastGet.services[n].headers

C6_UpdateStep ==
    (last'.op = "update" /\ last'.answers = <<"OK">>) =>
        \A n \in DOMAIN handle.services :
            n \notin DOMAIN lastGet'.services => n \notin DOMAIN handle'.services

C6_UpdateOverwrites == []C6_UpdatedState /\ [][C6_UpdateStep]_vars

C6_Witness ==
    /\ UpdateSucceeded
    /\ handle.ready
    /\ handle.name = "instances/b"
    /\ DOMAIN handle.services = {"http"}

\* C7: a failed GetInstance call of Client.get_instance or Instance.update
\* raises InstanceNotFoundError, its message containing the requested name,
\* for NOT_FOUND, and RemoteError, its message containing the detail text,
\* for every other status; the cause is the transport error with its status.
C7_GetInstanceErrorMapping ==
    (last.op \in {"get_instance", "update"} /\ last.answers[1] \in ErrCodes) =>
        LET requested == last.calls[1].arg[1]
        IN /\ last.calls[1].method = "GetInstance"
           /\ last.exc.cause.code = last.answers[1]
           /\ IF last.answers[1] = "NOT_FOUND"
              THEN /\ last.exc.type = "InstanceNotFoundError"
                   /\ Contains(last.exc.message, requested)
              ELSE /\ last.exc.type = "RemoteError"
                   /\ Contains(last.exc.message, last.exc.cause.details)

C7_Witness ==
    /\ last.op = "get_instance"
    /\ last.answers = <<"NOT_FOUND">>
    /\ last.exc.type = "InstanceNotFoundError"
    /\ Contains(last.exc.message, "instances/b")

----------------------------------------------------------------------------
(* build_grpc_channel *)

\* C8: build_grpc_channel(service_name) raises InstanceNotReadyError naming
\* the instance when ready is false, whatever services contains and without
\* building a channel; raises UnsupportedServiceError naming the instance and
\* the service when ready and the service is absent; else calls that
\* service's channel construction once, no other's, and returns its channel.
C8_BuildChannelOutcome ==
    last.op = "build_grpc_channel" =>
        LET service_name == last.args[1]
        IN IF ~handle.ready
           THEN /\ last.exc.type = "InstanceNotReadyError"
                /\ Contains(last.exc.message, handle.name)
                /\ last.calls = <<>> /\ last.ret = <<>>
           ELSE IF service_name \notin DOMAIN handle.services
           THEN /\ last.exc.type = "UnsupportedServiceError"
                /\ Contains(last.exc.message, handle.name)
                /\ Contains(last.exc.message, service_name)
                /\ last.calls = <<>> /\ last.ret = <<>>
           ELSE /\ last.exc = NoExc
                /\ Len(last.calls) = 1
                /\ last.calls[1].method = "Service._build_grpc_channel"
                /\ last.calls[1].arg = <<service_name>>
                /\ Len(last.ret) = 1
                /\ last.ret[1].target = handle.services[service_name].uri
                /\ last.ret[1].metadata = handle.services[service_name].headers

C8_Witness ==
    /\ last.op = "build_grpc_channel"
    /\ ~handle.ready
    /\ last.args = <<"other">>
    /\ DOMAIN handle.services = {"grpc"}

----------------------------------------------------------------------------
(* create_instance *)

ListedEmpty ==
    last.op = "create_instance" /\ last.answers[1] = "OK" /\ last.listed = <<>>
ListedSome ==
    last.op = "create_instance" /\ last.answers[1] = "OK" /\ Len(last.listed) > 0

\* C9: when list_definitions returns an empty list, create_instance raises
\* UnsupportedProductError carrying exactly the requested product_name and
\* product_version; the message names the product, and the version only when
\* one was requested; no CreateInstance call is issued.
C9_UnsupportedProduct ==
    ListedEmpty =>
        LET product_name == last.args[1]
            product_version == last.args[2]
        IN /\ last.exc.type = "UnsupportedProductError"
           /\ last.exc.attrs = <<product_name, product_version>>
           /\ Contains(last.exc.message, product_name)
           /\ Contains(last.exc.message, " in version ") =>
                 /\ product_version # NoneVal
                 /\ Contains(last.exc.message, product_version)
           /\ product_version = "221" => Contains(last.exc.message, "221")
           /\ Len(last.calls) = 1
           /\ last.calls[1].method = "ListDefinitions"
           /\ last.ret = <<>>

C9_Witness ==
    /\ ListedEmpty
    /\ last.args[2] = NoneVal
    /\ last.exc.type = "UnsupportedProductError"

\* C10: when list_definitions returns a non-empty list, create_instance issues
\* the ListDefinitions call with the requested filters and timeout, then one
\* CreateInstance call for the first definition with the same timeout and for
\* no other, and returns the instance of that call's response.
C10_CreatesFromFirstDefinition ==
    ListedSome =>
        /\ Len(last.calls) = 2
        /\ last.calls[1] = Call("ListDefinitions",
                                <<ProtoStr(last.args[1]), ProtoStr(last.args[2])>>,
                                last.args[3])
        /\ last.calls[2] = Call("CreateInstance", <<last.listed[1].name>>,
                                last.args[3])
        /\ last.answers = <<"OK", "OK">> =>
              /\ last.exc = NoExc
              /\ Len(last.ret) = 1
              /\ last.ret[1].definition_name \in DefNames

\* C11: Client.create_instance hands the client's configuration down to the
\* creation of the instance without failing: with a definition listed and the
\* CreateInstance call answered, it returns the instance; and a ready instance
\* obtained that way from a client whose configuration has tls builds a secure
\* channel carrying the configuration's access token.
C11_ConfigurationForwarded ==
    /\ ListedSome =>
          /\ last.exc.type # "TypeError"
          /\ last.answers = <<"OK", "OK">> => (last.exc = NoExc /\ Len(last.ret) = 1)
    /\ ( /\ last.op = "build_grpc_channel"
         /\ last.exc = NoExc
         /\ life.origin = "Client.create_instance"
         /\ config.present /\ config.tls ) =>
            /\ last.ret[1].secure
            /\ last.ret[1].access_token = config.access_token

\* C12: every failure of a remote call, other than NOT_FOUND answered to
\* get_instance or update, reaches the caller as RemoteError whose cause is the
\* failed call; this holds also for a failed CreateInstance and a failed
\* DeleteInstance, a NOT_FOUND answered to a delete included.
C12_RemoteFailuresWrapped ==
    ( /\ last.done
      /\ Len(last.answers) > 0
      /\ last.answers[Len(last.answers)] \in ErrCodes
      /\ ~( /\ last.op \in {"get_instance", "update"}
            /\ last.answers[Len(last.answers)] = "NOT_FOUND" ) ) =>
        /\ last.exc.type = "RemoteError"
        /\ last.exc.cause.code = last.answers[Len(last.answers)]

ListFailed ==
    /\ last.op \in {"list_definitions", "list_instances"}
    /\ last.answers[1] \in ErrCodes

\* C13: list_definitions and list_instances raise RemoteError for every failed
\* remote call, whatever its status, NOT_FOUND included; the message holds
\* the detail text of the failure and the cause its status code.
C13_ListFailuresAreRemoteErrors ==
    ListFailed =>
        /\ last.exc.type = "RemoteError"
        /\ last.exc.cause.code = last.answers[1]
        /\ Contains(last.exc.message, last.exc.cause.details)
        /\ Len(last.calls) = 1

C13_Witness ==
    /\ last.op = "list_instances"
    /\ last.answers = <<"NOT_FOUND">>
    /\ last.exc.type = "RemoteError"
    /\ Contains(last.exc.message, "teapot")

\* C14: a get_instance whose GetInstance call succeeds has sent that one
\* request with the requested name and returns the Instance translated from
\* the response; a list_instances whose call succeeds returns one translated
\* Instance per entry of the response, in the response's order, the empty
\* list for an empty response.
C14_SuccessfulLookups ==
    /\ (last.op = "get_instance" /\ last.answers = <<"OK">>) =>
          /\ last.calls = <<Call("GetInstance", <<last.args[1]>>, last.args[2])>>
          /\ last.exc = NoExc
          /\ last.ret = <<Instance_from_pim_v1(last.listed[1])>>
    /\ (last.op = "list_instances" /\ last.answers = <<"OK">>) =>
          /\ last.exc = NoExc
          /\ last.ret = [i \in 1..Len(last.listed) |->
                            Instance_from_pim_v1(last.listed[i])]

\* an instance has just been returned by Instance._create or by
\* Client.create_instance
JustCreated ==
    /\ last.op \in {"Instance._create", "create_instance"}
    /\ last.exc = NoExc
    /\ HasHandle

C16_DeleteStep ==
    (last'.op = "delete" /\ (last' # last \/ life' # life)) =>
        /\ handle' = handle
        /\ last'.calls = <<Call("DeleteInstance", <<handle.name>>, NoneVal)>>
        /\ life'.dels = life.dels + 1

C16_DeleteIsOneRequest == [][C16_DeleteStep]_vars

C16_Witness ==
    /\ last.op = "delete"
    /\ life.dels = 2
    /\ last.answers = <<"NOT_FOUND">>
    /\ handle.ready
    /\ DOMAIN handle.services = {"grpc", "http"}

\* C17: a handle used as a with scope is deleted when the scope is left, at
\* the end of the body or by an exception raised in it: leaving issues exactly
\* one DeleteInstance request, carrying the handle's name, and the handle in
\* the scope comes from an answered CreateInstance.
C17_InScope ==
    life.scope = "in" => (HasHandle /\ life.origin = "Instance._create")

C17_LeaveStep ==
    (life.scope = "in" /\ life'.scope # "in") =>
        /\ last'.op = "Instance.__exit__"
        /\ last'.calls = <<Call("DeleteInstance", <<handle.name>>, NoneVal)>>
        /\ life'.dels = life.dels + 1

C17_ScopeDeletesOnExit == []C17_InScope /\ [][C17_LeaveStep]_vars

C17_Witness ==
    /\ last.op = "Instance.__exit__"
    /\ last.exc.type = "InstanceNotReadyError"
    /\ last.answers = <<"OK">>
    /\ life.scope = "out"
    /\ life.dels = 1

\* C18: after close() and after every way out of a with scope on the client,
\* at the end of the body or by an exception, the channel is closed; a close()
\* after a close(), and a scope exit after a close(), raise nothing of their
\* own and leave the channel closed.
C18_Closed ==
    /\ last.op = "close" => (chan.closed /\ last.exc = NoExc)
    /\ last.op = "Client.__exit__" => chan.closed
    /\ chan.scope = "left" => chan.closed

C18_CloseStep ==
    /\ chan.closed => chan'.closed
    /\ (chan.scope = "in" /\ chan'.scope # "in") =>
          /\ last'.op = "Client.__exit__"
          /\ chan'.closed
          /\ last'.exc = IF chan.raised THEN last.exc ELSE NoExc

C18_ChannelClosed == []C18_Closed /\ [][C18_CloseStep]_vars

C18_Witness ==
    /\ last.op = "Client.__exit__"
    /\ last.exc.type = "RemoteError"
    /\ chan.closed
    /\ chan.closes = 1

C18_WitnessRepeated ==
    /\ last.op = "Client.__exit__"
    /\ last.exc = NoExc
    /\ chan.closed
    /\ chan.closes = 2

----------------------------------------------------------------------------
(* Loading the configuration *)

\* the file loaded is complete: version 1 and a pim object with its three keys
Loaded == last.op = "from_file"
CompleteFile ==
    /\ file.kind = "json" /\ file.has_version /\ file.version = 1
    /\ file.pim = "object" /\ file.keys = PimKeys

\* the header's key is "authorization" in any case and its value "Bearer X"
IsBearerAuthorization(header) ==
    /\ Len(header.key) = 1
    /\ Lower(header.key[1]) = "authorization"
    /\ header.value[1] = "Bearer "

BearerAuthorizations ==
    {i \in 1..Len(file.headers) : IsBearerAuthorization(file.headers[i])}

\* C19: loading a complete file with tls true whose headers hold a header of
\* key "authorization" (in any case) and value "Bearer X" succeeds; the access
\* token is X, the value without its leading "Bearer " and nothing else
\* removed; that header is not among the headers of the result, and the other
\* headers are, in their order.
C19_BearerTokenExtracted ==
    (Loaded /\ CompleteFile /\ file.tls /\ Cardinality(BearerAuthorizations) = 1) =>
        LET i == CHOOSE i \in BearerAuthorizations : TRUE
        IN /\ last.exc = NoExc
           /\ Len(last.ret) = 1
           /\ last.ret[1].access_token = Tail(file.headers[i].value)
           /\ last.ret[1].headers = list_remove(file.headers, i)

\* C20 as stated: loading a complete file with tls true succeeds only if some
\* header has a key equal to "authorization" up to case and a value starting
\* with "Bearer "; in every other case, a key that only begins with
\* "authorization" included, it fails with InvalidConfigurationError.
C20_AuthorizationKeyRequired ==
    (Loaded /\ CompleteFile /\ file.tls) =>
        IF BearerAuthorizations # {}
        THEN last.exc = NoExc
        ELSE last.exc.type = "InvalidConfigurationError"

\* the header's key begins with "authorization" in any case and its value
\* begins with "Bearer "
BeginsAsBearerAuthorization(header) ==
    /\ Lower(Head(header.key)) = "authorization"
    /\ Head(header.value) = "Bearer "

\* C20 amended: loading a complete file with tls true succeeds exactly if
\* some header has a key that begins with "authorization" up to case, the key
\* "authorization-x" included, and a value starting with "Bearer "; in every
\* other case it fails with InvalidConfigurationError asking for an
\* authorization header with a bearer token.
C20_AuthorizationPrefixRequired ==
    (Loaded /\ CompleteFile /\ file.tls) =>
        IF \E i \in 1..Len(file.headers) :
               BeginsAsBearerAuthorization(file.headers[i])
        THEN last.exc = NoExc /\ Len(last.ret) = 1 /\ last.ret[1].tls
        ELSE /\ last.exc.type = "InvalidConfigurationError"
             /\ Contains(last.exc.message,
                    "An authorization header with a bearer token is required")
             /\ last.ret = <<>>

C20_Witness ==
    /\ Loaded /\ CompleteFile /\ file.tls
    /\ BearerAuthorizations = {}
    /\ Len(file.headers) = 2
    /\ file.headers[2].key = <<"authorization", "-x">>
    /\ last.exc = NoExc
    /\ last.ret[1].access_token = <<"007">>

\* the load failed with InvalidConfigurationError that carries the path, as
\* attribute and in the message, and the token in the message; nothing is
\* returned
InvalidWith(token) ==
    /\ last.exc.type = "InvalidConfigurationError"
    /\ last.exc.attrs = <<last.args[1]>>
    /\ Contains(last.exc.message, last.args[1])
    /\ Contains(last.exc.message, token)
    /\ last.ret = <<>>

C22_TlsImpliesToken ==
    (last.op \in {"from_file", "Configuration"} /\ Len(last.ret) = 1) =>
        /\ last.ret[1].tls => last.ret[1].access_token # NoToken
        /\ last.op = "from_file" =>
              (last.ret[1].tls <=> last.ret[1].access_token # NoToken)

----------------------------------------------------------------------------
(* Translation of wire records *)

\* names are whole texts in the model: those with the prefix are listed
HasDefinitionsPrefix(name) == name \in DefNames
HasInstancesPrefix(name) == name \in InstNames

WellFormedDefinition(d) ==
    /\ HasDefinitionsPrefix(d.name)
    /\ d.product_name # ""
    /\ d.product_version # ""
    /\ Len(d.available_service_names) > 0

\* C23: list_definitions never returns a Definition whose name lacks the
\* "definitions/" prefix, or whose product name, product version or list of
\* service names is empty: the translation of such a wire record raises an
\* error and nothing is returned.
C23_DefinitionsValidated ==
    (last.op = "list_definitions" /\ last.answers = <<"OK">>) =>
        IF \A i \in 1..Len(last.listed) : WellFormedDefinition(last.listed[i])
        THEN last.exc = NoExc
        ELSE last.exc.type # "none" /\ last.ret = <<>>

WellFormedInstance(i) ==
    /\ i.name = "" \/ HasInstancesPrefix(i.name)
    /\ HasDefinitionsPrefix(i.definition_name)
    /\ \A n \in DOMAIN i.services : i.services[n].uri # ""

\* C24: the handle's name is empty or starts with "instances/", its
\* definition name starts with "definitions/" and each of its services has a
\* uri, in every state; a wire record that breaks one of these is refused
\* with an error when it is translated and leaves an existing handle as it
\* was.
C24_HandleState == HasHandle => WellFormedInstance(handle)

C24_MalformedStep ==
    (last'.op = "update" /\ last'.answers = <<"OK">> /\ ~WellFormedInstance(lastGet')) =>
        /\ handle' = handle
        /\ last'.exc.type # "none"

C24_HandleWellFormed == []C24_HandleState /\ [][C24_MalformedStep]_vars

LastResponse ==
    IF last.op = "update" THEN lastGet ELSE last.listed[1]

----------------------------------------------------------------------------
(* Lifecycle of the handle *)

\* C26 as stated: a ready handle stays ready through updates, and once a
\* delete was issued no operation changes the handle or returns a channel.
C26_ForwardStep ==
    /\ (handle.ready /\ last'.op = "update") => handle'.ready
    /\ life.dels > 0 =>
          /\ handle' = handle
          /\ ~(last'.op = "build_grpc_channel" /\ last' # last /\ Len(last'.ret) = 1)

C26_LifecycleForward == [][C26_ForwardStep]_vars

\* C26 amended: the handle follows the remote and keeps no trace of a delete:
\* an update answered by a not ready instance makes a ready handle not ready,
\* a delete leaves the handle as it was, and after a delete an answered update
\* still refreshes the handle and build_grpc_channel still returns a channel
\* exactly when the handle is ready and has the service.
C26_Follows ==
    /\ (last.op = "update" /\ last.answers = <<"OK">>) =>
          (handle.ready = lastGet.ready /\ handle.name = lastGet.name)
    /\ last.op = "build_grpc_channel" =>
          (Len(last.ret) = 1 <=>
              (handle.ready /\ last.args[1] \in DOMAIN handle.services))

C26_FollowStep ==
    /\ ( /\ handle.ready /\ last'.op = "update" /\ last'.answers = <<"OK">>
         /\ ~lastGet'.ready ) => ~handle'.ready
    /\ (last'.op = "delete" /\ life'.dels = life.dels + 1) => handle' = handle

C26_HandleFollowsRemote == []C26_Follows /\ [][C26_FollowStep]_vars

C26_Witness ==
    /\ life.dels > 0
    /\ last.op = "build_grpc_channel"
    /\ Len(last.ret) = 1

----------------------------------------------------------------------------
(* Remote calls per operation *)

Methods(calls) == [i \in 1..Len(calls) |-> calls[i].method]

\* C27: no operation retries a remote call: list_definitions, list_instances,
\* get_instance, update and delete have issued exactly one call when they end,
\* with a result or with an exception; create_instance has issued one
\* ListDefinitions and then at most one CreateInstance, none after a failed
\* listing; wait_for_ready is the only one with several calls, and it issues
\* none after a failed one.
C27_NoRetries ==
    /\ last.op = "list_definitions" => Methods(last.calls) = <<"ListDefinitions">>
    /\ last.op = "list_instances" => Methods(last.calls) = <<"ListInstances">>
    /\ last.op \in {"get_instance", "update"} =>
          Methods(last.calls) = <<"GetInstance">>
    /\ last.op = "delete" => Methods(last.calls) = <<"DeleteInstance">>
    /\ last.op = "create_instance" =>
          /\ Methods(last.calls) \in {<<"ListDefinitions">>,
                                      <<"ListDefinitions", "CreateInstance">>}
          /\ last.answers[1] # "OK" => Len(last.calls) = 1
    /\ \A i \in 1..Len(wait.trace) :
          wait.trace[i] = "UE" => i = Len(wait.trace)

C27_Witness ==
    /\ last.op = "delete"
    /\ last.answers # <<"OK">>
    /\ last.exc.type # "none"

C27_WitnessWait ==
    /\ wait.pc = "raised"
    /\ Count(wait.trace, {"U0"}) >= 1

----------------------------------------------------------------------------
(* The header adding interceptor *)

WentOut == last.op \in CallShapes /\ last.done

CallerMetadata ==
    IF last.args[2].metadata.none THEN <<>> ELSE last.args[2].metadata.items

\* C28: for a call of any of the four shapes, the continuation receives the
\* caller's metadata (none counts as empty) followed by the configured pairs in
\* their order, with nothing removed or merged, and the caller's method,
\* timeout, credentials and request message or messages.
C28_HeadersAppended ==
    WentOut =>
        LET headers == last.args[1]
            details == last.args[2]
            sent == last.calls[1]
        IN /\ ~sent.details.metadata.none
           /\ sent.details.metadata.items = CallerMetadata \o headers
           /\ Len(sent.details.metadata.items) = Len(CallerMetadata) + Len(headers)
           /\ sent.details.method = details.method
           /\ sent.details.timeout = details.timeout
           /\ sent.details.credentials = details.credentials
           /\ sent.request = IF last.op \in {"unary_unary", "unary_stream"}
                             THEN last.args[3][1] ELSE last.args[3]

C28_Witness ==
    /\ WentOut
    /\ last.op = "stream_stream"
    /\ CallerMetadata = <<<<"k1", "v1">>, <<"k2", "v2">>>>
    /\ last.args[1] = <<<<"k2", "v2">>, <<"k1", "v1">>>>
    /\ Len(last.calls[1].details.metadata.items) = 4
    /\ Len(last.calls[1].request) = 2

----------------------------------------------------------------------------
(* A reader concurrent with update *)

\* the services of response k, response 0 being the creation's
ServicesOfResponse(k) ==
    IF k = 0 THEN <<>>
    ELSE [n \in DOMAIN thr.resps[k].services |->
             Service_from_pim_v1(thr.resps[k].services[n])]

ReadyOfResponse(k) == IF k = 0 THEN FALSE ELSE thr.resps[k].ready

\* C29: a reader that read ready and then services uses the services of the
\* response its ready flag came from, or of a later response; having seen the
\* ready=true of an update it never uses the service map from before it.
C29_ServicesNotOlderThanReady ==
    thr.rd.pc = "done" =>
        /\ thr.rd.ready
        /\ thr.rd.ready = ReadyOfResponse(thr.rd.readyVer)
        /\ thr.rd.servicesVer >= thr.rd.readyVer
        /\ thr.rd.services = ServicesOfResponse(thr.rd.servicesVer)

C29_Witness ==
    /\ thr.rd.pc = "done"
    /\ thr.pc = Len(update_writes)
    /\ thr.rd.readyVer = 1
    /\ thr.rd.servicesVer = 2
    /\ thr.rd.services # ServicesOfResponse(1)

----------------------------------------------------------------------------
(* The name the remote is addressed by *)

Addressing == last'.op \in {"update", "delete"} /\ last' # last

\* C30: update and delete send the name the handle holds when they are called;
\* a successful update makes the response's name the handle's name, a failed
\* update and a delete leave the name alone, and a creation gives the handle
\* the name of its response: every request carries the name of the most recent
\* successful response.
C30_NameStep ==
    /\ Addressing =>
          /\ Len(last'.calls) = 1
          /\ last'.calls[1].arg = <<handle.name>>
    /\ (Addressing /\ last'.op = "update" /\ last'.answers = <<"OK">>) =>
          handle'.name = lastGet'.name
    /\ (Addressing /\ last'.op = "update" /\ last'.answers # <<"OK">>) =>
          handle'.name = handle.name
    /\ (Addressing /\ last'.op = "delete") => handle'.name = handle.name

C30_CreatedName ==
    (last.op = "Instance._create" /\ last.answers = <<"OK">>) =>
        handle.name = last.listed[1].name

C30_CurrentNameAddressed == []C30_CreatedName /\ [][C30_NameStep]_vars

C30_Witness ==
    /\ last.op = "update"
    /\ last.answers = <<"OK">>
    /\ last.calls[1].arg # <<handle.name>>
    /\ handle.name = lastGet.name

====
